---------------------------- MODULE Spec2Model ----------------------------
(***************************************************************************)
(* Model of utils/external-tools/domain_checker.py (class DomainChecker):  *)
(* the domain validator, the three lookup strategies, the fallback chain   *)
(* check_domain, and the batch and search helpers built on it.             *)
(*                                                                         *)
(* A Python str is a sequence of one-character strings.  None is the       *)
(* string "None"; the booleans of DomainResult.available are the strings   *)
(* "True" and "False", so that the tri-state field has one type.           *)
(***************************************************************************)
EXTENDS Integers, Sequences, FiniteSets, TLC

VARIABLES
    pc,            \* position of the running operation
    rapidapi_key,  \* self.rapidapi_key, read once by __init__
    op,            \* the operation that was called
    arg,           \* its arguments
    ret,           \* its return value
    calls,         \* the strategy invocations, sleeps and network requests made, in order
    env,           \* what the outside world answered to a direct strategy call
    idx,           \* batch/search loops: number of list items consumed so far
    acc,           \* batch/search loops: the list being accumulated
    suggestions    \* search loop: the list of generated suggestions

vars == <<pc, rapidapi_key, op, arg, ret, calls, env, idx, acc, suggestions>>

None == "None"

-----------------------------------------------------------------------------
(* Characters and the character classes of the validator's regex.          *)

Lower == {"a","b","c","d","e","f","g","h","i","j","k","l","m",
          "n","o","p","q","r","s","t","u","v","w","x","y","z"}
Upper == {"A","B","C","D","E","F","G","H","I","J","K","L","M",
          "N","O","P","Q","R","S","T","U","V","W","X","Y","Z"}
Digit == {"0","1","2","3","4","5","6","7","8","9"}

\* [a-zA-Z]
IsAlpha(c) == c \in Lower \cup Upper
\* [a-zA-Z0-9]
IsAlnum(c) == IsAlpha(c) \/ c \in Digit
\* [a-zA-Z0-9-]
IsAlnumHyphen(c) == IsAlnum(c) \/ c = "-"

\* len(domain) > 253
MaxDomainLen == 253
\* the {0,61} of the regex
MaxInner == 61
\* the {2,} of the regex
MinTld == 2

\* ^[a-zA-Z0-9]([a-zA-Z0-9-]{0,61}[a-zA-Z0-9])? matched against s[1..n]
LabelMatch(s, n) ==
    /\ n >= 1
    /\ IsAlnum(s[1])
    /\ \/ n = 1
       \/ /\ n - 2 <= MaxInner
          /\ IsAlnum(s[n])
          /\ \A k \in 2..(n - 1) : IsAlnumHyphen(s[k])

\* \.([a-zA-Z]{2,}) matched against s[p..e]
TldMatch(s, p, e) ==
    /\ s[p] = "."
    /\ e - p >= MinTld
    /\ \A k \in (p + 1)..e : IsAlpha(s[k])

\* $ without re.MULTILINE: the end of the string, or just before a newline
\* that is the last character of the string
DollarMatch(s, e) ==
    \/ e = Len(s)
    \/ e = Len(s) - 1 /\ s[Len(s)] = "\n"

\* re.match(pattern, domain): some split of the string matches the pattern
ReMatch(s) ==
    \E p \in 2..Len(s) :
        /\ s[p] = "."
        /\ LabelMatch(s, p - 1)
        /\ \E e \in {Len(s) - 1, Len(s)} :
              e > p /\ TldMatch(s, p, e) /\ DollarMatch(s, e)

is_valid_domain(domain) ==
    IF Len(domain) = 0 \/ Len(domain) > MaxDomainLen
    THEN FALSE
    ELSE ReMatch(domain)

-----------------------------------------------------------------------------
(* DomainResult and the three lookup strategies.  A strategy is a function *)
(* of what the outside world answers (parameter o); it returns its         *)
(* DomainResult together with the network interactions it performed.       *)

NoDetails == [kind |-> None]

DomainResult(domain, available, status, error, details, method) ==
    [domain |-> domain, available |-> available, status |-> status,
     error |-> error, details |-> details, method |-> method]

\* what whois.whois(domain) does
WhoisOutcomes ==
    {"no_domain_name",     \* returns an entry whose domain_name is empty
     "registered",         \* returns an entry with a domain_name
     "pywhois_no_match",   \* raises PywhoisError, text has "No match"/"not found"
     "pywhois_other",      \* raises PywhoisError with any other text
     "exception"}          \* raises any other Exception

check_domain_whois(domain, o) ==
    [net |-> <<"whois_query">>,
     result |->
        CASE o = "no_domain_name" ->
                DomainResult(domain, "True", "AVAILABLE", None,
                             [kind |-> "whois_data"], "whois_library")
          [] o = "registered" ->
                DomainResult(domain, "False", "REGISTERED", None,
                             [kind |-> "registration"], "whois_library")
          [] o = "pywhois_no_match" ->
                DomainResult(domain, "True", "AVAILABLE", None,
                             NoDetails, "whois_library")
          [] o = "pywhois_other" ->
                DomainResult(domain, None, None, "WHOIS error",
                             NoDetails, "whois_library")
          [] OTHER ->
                DomainResult(domain, None, None, "WHOIS check failed",
                             NoDetails, "whois_library")]

\* what socket.gethostbyname(domain) does
DnsOutcomes ==
    {"resolved",           \* returns an address
     "gaierror_noname",    \* raises socket.gaierror, EAI_NONAME: name not found
     "gaierror_again",     \* raises socket.gaierror, EAI_AGAIN: temporary failure
     "gaierror_fail",      \* raises socket.gaierror, EAI_FAIL: non-recoverable failure
     "exception"}          \* raises any other Exception (timeout, UnicodeError, ...)

\* except socket.gaierror
IsGaierror(o) == o \in {"gaierror_noname", "gaierror_again", "gaierror_fail"}

\* mutant: the gaierror branch also fills in the error
check_domain_dns_GaierrorWithError(domain, o) ==
    [net |-> <<"gethostbyname">>,
     result |->
        IF o = "resolved"
        THEN DomainResult(domain, "False", "REGISTERED", None,
                          [kind |-> "dns_resolves", value |-> TRUE], "dns_resolution")
        ELSE IF IsGaierror(o)
        THEN DomainResult(domain, "True", "AVAILABLE", "DNS check failed",
                          [kind |-> "dns_resolves", value |-> FALSE], "dns_resolution")
        ELSE DomainResult(domain, None, None, "DNS check failed",
                          NoDetails, "dns_resolution")]

check_domain_dns(domain, o) ==
    [net |-> <<"gethostbyname">>,
     result |->
        IF o = "resolved"
        THEN DomainResult(domain, "False", "REGISTERED", None,
                          [kind |-> "dns_resolves", value |-> TRUE], "dns_resolution")
        ELSE IF IsGaierror(o)
        THEN DomainResult(domain, "True", "AVAILABLE", None,
                          [kind |-> "dns_resolves", value |-> FALSE], "dns_resolution")
        ELSE DomainResult(domain, None, None, "DNS check failed",
                          NoDetails, "dns_resolution")]

\* self.apis
ApiNames == {"whoisapi", "domaindb"}

\* the decoded JSON bodies: the keys present and the value of 'registered'
Payloads ==
    {[kind |-> "dict", keys |-> {"registrar"}, registered |-> None],
     [kind |-> "dict", keys |-> {"creation_date"}, registered |-> None],
     [kind |-> "dict", keys |-> {}, registered |-> None],
     [kind |-> "dict", keys |-> {"registered"}, registered |-> "True"],
     [kind |-> "dict", keys |-> {"registered"}, registered |-> "False"]}

\* what session.get / raise_for_status / response.json() do
HttpOutcomes ==
    {[kind |-> "transport_error"],    \* session.get raises a RequestException
     [kind |-> "http_error"],         \* raise_for_status raises HTTPError
     [kind |-> "json_request_exc"],   \* json() raises requests' JSONDecodeError
     [kind |-> "json_value_error"],   \* json() raises a plain ValueError
     [kind |-> "not_a_dict"]}         \* the body decodes to a number or null
    \cup Payloads

\* except requests.exceptions.RequestException
IsRequestException(o) ==
    o.kind \in {"transport_error", "http_error", "json_request_exc"}

\* mutant: the credential test is left out
NoKey_Never(key) == FALSE

\* not self.rapidapi_key
NoKey(key) == key = None \/ key = ""

check_domain_rapidapi(key, domain, api_name, o) ==
    LET method == "rapidapi_" \o api_name IN
    IF NoKey(key)
    THEN [net |-> <<>>,
          result |-> DomainResult(domain, None, None,
                        "RapidAPI key not found in environment variables",
                        NoDetails, method)]
    ELSE IF api_name \notin ApiNames
    THEN [net |-> <<>>,
          result |-> DomainResult(domain, None, None, "Unknown API",
                                  NoDetails, method)]
    ELSE [net |-> <<"http_get">>,
          result |->
            IF IsRequestException(o)
            THEN DomainResult(domain, None, None, "API request failed",
                              NoDetails, method)
            ELSE IF o.kind # "dict"
            THEN DomainResult(domain, None, None, "API check failed",
                              NoDetails, method)
            ELSE LET available ==
                        IF api_name = "whoisapi"
                        THEN IF "registrar" \in o.keys \/ "creation_date" \in o.keys
                             THEN "False" ELSE "True"
                        ELSE IF "registered" \in o.keys /\ o.registered = "False"
                             THEN "True" ELSE "False"
                 IN DomainResult(domain, available,
                        IF available = "True" THEN "AVAILABLE" ELSE "REGISTERED",
                        None, o, method)]

-----------------------------------------------------------------------------
(* check_domain: the fallback chain.  It is computed as the set of all its *)
(* runs, one per way the outside world can answer the strategies called.   *)
(* A run is the DomainResult returned and the log of what was done.        *)

\* the default value of the parameter methods
DefaultMethods == <<"whois", "dns", "rapidapi">>

\* the method names check_domain dispatches on
KnownMethods == {"whois", "dns", "rapidapi"}

NoResult == [kind |-> None]

\* log entries: a strategy invocation with what came of it, a network
\* interaction of a strategy, a time.sleep
StrategyCall(method, raised, result) ==
    [kind |-> "strategy", what |-> method, raised |-> raised, result |-> result]
NetCall(what) == [kind |-> "net", what |-> what, raised |-> FALSE, result |-> NoResult]
Sleep(secs) == [kind |-> "sleep", what |-> secs, raised |-> FALSE, result |-> NoResult]

NetCalls(net) == [k \in 1..Len(net) |-> NetCall(net[k])]

\* The ways one strategy invocation inside the try block can end: with the
\* strategy's DomainResult, or with an exception leaving the call (the
\* strategies catch Exception themselves, so this is an error raised
\* inside one of their handlers, or in a strategy overridden by a subclass
\* or a test double); check_domain's except clause swallows it.
Attempts(key, domain, method) ==
    LET returned ==
            CASE method = "whois" ->
                    {check_domain_whois(domain, o) : o \in WhoisOutcomes}
              [] method = "dns" ->
                    {check_domain_dns(domain, o) : o \in DnsOutcomes}
              [] OTHER ->
                    {check_domain_rapidapi(key, domain, "whoisapi", o) :
                        o \in HttpOutcomes}
    IN {[raised |-> FALSE, result |-> a.result, net |-> a.net] : a \in returned}
       \cup {[raised |-> TRUE, result |-> NoResult, net |-> <<>>]}

\* mutant: only an available=true answer stops the chain
IsClean_OnlyTrue(result) ==
    result.available = "True" /\ (result.error = None \/ result.error = "")

\* result.available is not None and not result.error
IsClean(result) ==
    result.available # None /\ (result.error = None \/ result.error = "")

\* the pacing delay after a strategy that gave no clean answer
PacingDelay == <<Sleep("0.5")>>

\* mutant: last_result is dropped
FinalResult_Synthesized(domain, last_result) ==
    DomainResult(domain, None, None, "All methods failed", NoDetails, None)

\* return last_result or DomainResult(domain=domain, available=None, error=...)
FinalResult(domain, last_result) ==
    IF last_result = NoResult
    THEN DomainResult(domain, None, None, "All methods failed", NoDetails, None)
    ELSE last_result

\* the for loop from position k on, with last_result and the log so far
RECURSIVE MethodLoop(_, _, _, _, _, _)
MethodLoop(key, domain, methods, k, last_result, log) ==
    IF k > Len(methods)
    THEN {[result |-> FinalResult(domain, last_result), calls |-> log]}
    ELSE IF methods[k] \notin KnownMethods
    THEN MethodLoop(key, domain, methods, k + 1, last_result, log)
    ELSE UNION {
            LET log1 == log \o <<StrategyCall(methods[k], a.raised, a.result)>>
                            \o NetCalls(a.net)
            IN IF a.raised
               THEN MethodLoop(key, domain, methods, k + 1, last_result, log1)
               ELSE IF IsClean(a.result)
               THEN {[result |-> a.result, calls |-> log1]}
               ELSE MethodLoop(key, domain, methods, k + 1, a.result,
                               log1 \o PacingDelay)
            : a \in Attempts(key, domain, methods[k])}

\* mutant: the validator is not consulted
check_domain_NoValidation(key, domain, methods_is_none, methods) ==
    MethodLoop(key, domain,
               IF methods_is_none THEN DefaultMethods ELSE methods,
               1, NoResult, <<>>)

\* methods_is_none: the caller passed no method list
check_domain(key, domain, methods_is_none, methods) ==
    IF ~is_valid_domain(domain)
    THEN {[result |-> DomainResult(domain, None, None, "Invalid domain format",
                                   NoDetails, None),
           calls |-> <<>>]}
    ELSE MethodLoop(key, domain,
                    IF methods_is_none THEN DefaultMethods ELSE methods,
                    1, NoResult, <<>>)

-----------------------------------------------------------------------------
(* Inputs.                                                                 *)

\* longest method list passed to check_domain
MaxMethods == 3

RECURSIVE SeqsUpTo(_, _)
SeqsUpTo(S, n) ==
    IF n = 0 THEN {<<>>}
    ELSE LET shorter == SeqsUpTo(S, n - 1)
         IN shorter \cup {Append(q, x) : q \in {r \in shorter : Len(r) = n - 1}, x \in S}

MethodLists == SeqsUpTo(KnownMethods \cup {"ping"}, MaxMethods)

\* os.getenv('RAPIDAPI_KEY'): unset, set to the empty string, set
Keys == {None, "", "k3y"}

Domains ==
    {<<"a", ".", "c", "o">>,             \* a.co
     <<"x", "-", "1", ".", "i", "o">>,   \* x-1.io
     <<>>,                               \* the empty string
     <<"-", "a", ".", "c", "o">>,        \* -a.co
     <<"a", ".", "b", ".", "c", "o">>,   \* a.b.co
     <<"a", ".", "c">>}                  \* a.c

-----------------------------------------------------------------------------
(* The checker object and calls of its methods, one call per behaviour.    *)

Init ==
    /\ pc = "idle"
    /\ rapidapi_key \in Keys
    /\ op = None
    /\ arg = [kind |-> None]
    /\ ret = NoResult
    /\ calls = <<>>
    /\ env = None
    /\ idx = 0
    /\ acc = <<>>
    /\ suggestions = <<>>

Return(name, a, r, c, e) ==
    /\ pc' = "done"
    /\ op' = name
    /\ arg' = a
    /\ ret' = r
    /\ calls' = c
    /\ env' = e
    /\ UNCHANGED <<rapidapi_key, idx, acc, suggestions>>

CallWhois ==
    /\ pc = "idle"
    /\ \E d \in Domains, o \in WhoisOutcomes :
          LET a == check_domain_whois(d, o)
          IN Return("check_domain_whois", [domain |-> d], a.result,
                    NetCalls(a.net), o)

CallDns ==
    /\ pc = "idle"
    /\ \E d \in Domains, o \in DnsOutcomes :
          LET a == check_domain_dns(d, o)
          IN Return("check_domain_dns", [domain |-> d], a.result,
                    NetCalls(a.net), o)

CallRapidapi ==
    /\ pc = "idle"
    /\ \E d \in Domains, n \in ApiNames \cup {"other"}, o \in HttpOutcomes :
          LET a == check_domain_rapidapi(rapidapi_key, d, n, o)
          IN Return("check_domain_rapidapi", [domain |-> d, api_name |-> n],
                    a.result, NetCalls(a.net), o.kind)

CallCheckDomain ==
    /\ pc = "idle"
    /\ \E d \in Domains, none \in BOOLEAN, ms \in MethodLists :
          /\ none => ms = <<>>
          /\ \E run \in check_domain(rapidapi_key, d, none, ms) :
                Return("check_domain",
                       [domain |-> d, methods_is_none |-> none, methods |-> ms],
                       run.result, run.calls, None)

Next == CallWhois \/ CallDns \/ CallRapidapi \/ CallCheckDomain

Spec == Init /\ [][Next]_vars

-----------------------------------------------------------------------------
(* Properties of the strategies and of check_domain, under Spec.           *)

Done(name) == pc = "done" /\ op = name

IsStrategyCall(e) == e.kind = "strategy"
IsSleep(e) == e.kind = "sleep"

\* the strategy invocations of the call, in order
Invoked == SelectSeq(calls, IsStrategyCall)

IsProduced(e) == e.kind = "strategy" /\ ~e.raised

\* the invocations that returned a DomainResult, in order
Produced == SelectSeq(calls, IsProduced)

IsKnownMethod(m) == m \in {"whois", "dns", "rapidapi"}

\* the strategies the caller asked for, in the order given
Requested ==
    IF arg.methods_is_none
    THEN <<"whois", "dns", "rapidapi">>
    ELSE SelectSeq(arg.methods, IsKnownMethod)

\* a definitive answer without an error
Definitive(r) == r.available \in {"True", "False"} /\ r.error = None

\* an error is populated
HasError(r) == r.error # None /\ r.error # ""

ValidCheck == Done("check_domain") /\ is_valid_domain(arg.domain)

\* C1: first-clean-wins.  A check of a valid domain invokes the requested
\* strategies in the given order; the first invocation that returns a
\* definitive, error-free result is the last invocation of the call and its
\* result is returned unchanged; while no invocation is clean, none of the
\* requested strategies is skipped.
C1_FirstCleanWins ==
    ValidCheck =>
        LET inv == Invoked
            req == Requested
        IN /\ Len(inv) <= Len(req)
           /\ \A k \in 1..Len(inv) : inv[k].what = req[k]
           /\ \A k \in 1..Len(inv) :
                 (~inv[k].raised /\ Definitive(inv[k].result))
                    => (k = Len(inv) /\ ret = inv[k].result)
           /\ (\A k \in 1..Len(inv) :
                  inv[k].raised \/ ~Definitive(inv[k].result))
                 => Len(inv) = Len(req)

\* three strategies requested, the first answers unknown with an error, the
\* second answers a clean available=false, which is returned; the third is
\* not invoked
C1_Witness ==
    /\ ValidCheck
    /\ Len(Requested) = 3
    /\ Len(Invoked) = 2
    /\ ~Invoked[1].raised
    /\ Invoked[1].result.available = None
    /\ HasError(Invoked[1].result)
    /\ ~Invoked[2].raised
    /\ Invoked[2].result.available = "False"
    /\ Invoked[2].result.error = None
    /\ ret = Invoked[2].result

\* the result check_domain makes up when it has none to return
IsSynthesized(r) ==
    r.available = None /\ r.error = "All methods failed" /\ r.method = None

\* C2: exhaustion.  A check of a valid domain in which some strategy
\* returned a result and none returned a clean definitive one returns the
\* result of the last strategy that returned one; the synthesized "All
\* methods failed" result is returned if and only if no strategy returned
\* a result.
C2_Exhaustion ==
    ValidCheck =>
        LET prod == Produced
        IN /\ (/\ Len(prod) > 0
               /\ \A k \in 1..Len(prod) : ~Definitive(prod[k].result))
                 => ret = prod[Len(prod)].result
           /\ IsSynthesized(ret) <=> Len(prod) = 0

\* all three strategies answer unknown with an error; the last one's result
\* is returned
C2_Witness ==
    /\ ValidCheck
    /\ Len(Produced) = 3
    /\ \A k \in 1..3 :
          Produced[k].result.available = None /\ HasError(Produced[k].result)
    /\ ret = Produced[3].result
    /\ ~IsSynthesized(ret)

\* C5: validation rejection is terminal.  A check of a string the validator
\* rejects invokes no strategy, makes no network request and no pacing
\* delay, and returns the input with available unknown, the error "Invalid
\* domain format" and no method.
C5_RejectionIsTerminal ==
    (Done("check_domain") /\ ~is_valid_domain(arg.domain)) =>
        /\ calls = <<>>
        /\ ret.domain = arg.domain
        /\ ret.available = None
        /\ ret.error = "Invalid domain format"
        /\ ret.method = None

\* a rejected, non-empty string checked with three known methods
C5_Witness ==
    /\ Done("check_domain")
    /\ ~is_valid_domain(arg.domain)
    /\ Len(arg.domain) > 0
    /\ ~arg.methods_is_none
    /\ Len(Requested) = 3
    /\ ret.error = "Invalid domain format"

\* C6: result invariant.  No DomainResult returned by a strategy or by
\* check_domain, and none produced by a strategy inside check_domain, has
\* available true or false together with a populated error.
C6_ResultInvariant ==
    pc = "done" =>
        /\ ~(ret.available \in {"True", "False"} /\ HasError(ret))
        /\ HasError(ret) => ret.available = None
        /\ LET prod == Produced
           IN \A k \in 1..Len(prod) :
                 HasError(prod[k].result) => prod[k].result.available = None

\* a check in which one strategy returned an error and a later one a
\* definitive answer
C6_Witness ==
    /\ Done("check_domain")
    /\ Len(Produced) = 3
    /\ HasError(Produced[1].result)
    /\ HasError(Produced[2].result)
    /\ Produced[3].result.available = "True"
    /\ ret = Produced[3].result

\* C7 as claimed: the name-resolution strategy answers available=false
\* when the name resolves, available=true when the resolver reports that
\* the name does not exist, and unknown with an error for every other
\* resolution failure.
C7_DnsOutcomeMapping ==
    Done("check_domain_dns") =>
        /\ env = "resolved" => ret.available = "False"
        /\ env = "gaierror_noname" => ret.available = "True"
        /\ env \notin {"resolved", "gaierror_noname"}
              => (ret.available = None /\ HasError(ret))

IsHttpGet(e) == e.kind = "net" /\ e.what = "http_get"

\* C8: missing-credential short-circuit.  With no API credential
\* configured the third-party strategy, called directly with any provider
\* name or from check_domain, returns unknown with a non-empty error and
\* no HTTP request is made.
C8_MissingCredential ==
    (pc = "done" /\ rapidapi_key \in {None, ""}) =>
        /\ Done("check_domain_rapidapi") =>
              (ret.available = None /\ HasError(ret))
        /\ \A k \in 1..Len(calls) : ~IsHttpGet(calls[k])
        /\ LET prod == Produced
           IN \A k \in 1..Len(prod) :
                 prod[k].what = "rapidapi" =>
                    (prod[k].result.available = None /\ HasError(prod[k].result))

\* the strategy called for a configured provider, with no credential, and
\* the provider would have answered
C8_Witness ==
    /\ Done("check_domain_rapidapi")
    /\ rapidapi_key = None
    /\ arg.api_name = "domaindb"
    /\ env = "dict"
    /\ ret.error = "RapidAPI key not found in environment variables"
    /\ calls = <<>>

\* C10 as claimed: in a check whose strategies all return, every pacing
\* delay is followed by the invocation of another strategy in the same
\* check, and a check that invokes k >= 1 strategies makes k-1 delays.
C10_PacingBetween ==
    (Done("check_domain") /\ Len(Produced) = Len(Invoked)) =>
        /\ \A k \in 1..Len(calls) :
              IsSleep(calls[k]) =>
                 \E j \in (k + 1)..Len(calls) : IsStrategyCall(calls[j])
        /\ Len(Invoked) >= 1 =>
              Len(SelectSeq(calls, IsSleep)) = Len(Invoked) - 1

-----------------------------------------------------------------------------
(* The validator on its own: is_valid_domain applied to one string.        *)

\* longest hand-enumerated middle part of a validator input
MaxShort == 4

ValidatorAlphabet == {"a", "7", "-", ".", "\n", "_"}

Repeat(c, n) == [k \in 1..n |-> c]

\* lengths of the runs of letters put before and after the middle part, to
\* reach the 63-character label boundary and the 253-character total
PadLens == {0, 62, 63, 249, 250}

\* the inputs: n letters, a middle part, m letters
ValidatorInput(n, mid, m) == Repeat("a", n) \o mid \o Repeat("b", m)

CallIsValidDomain ==
    /\ pc = "idle"
    /\ \E n \in PadLens, m \in PadLens :
          \E mid \in SeqsUpTo(ValidatorAlphabet, MaxShort) :
             LET s == ValidatorInput(n, mid, m)
             IN Return("is_valid_domain", [domain |-> s],
                       [value |-> is_valid_domain(s)], <<>>, None)

NextValidator == CallIsValidDomain

SpecValidator == Init /\ [][NextValidator]_vars

\* the positions that delimit the labels of s: before the first character,
\* every dot, after the last character
Cuts(s) == {0, Len(s) + 1} \cup {k \in 1..Len(s) : s[k] = "."}

NextCut(s, c) == CHOOSE d \in Cuts(s) : d > c /\ \A x \in Cuts(s) : x > c => d <= x

\* s[from..to] is 1 to 63 letters, digits and hyphens, not starting or
\* ending with a hyphen
ClaimedLabel(s, from, to) ==
    /\ to - from + 1 \in 1..63
    /\ \A k \in from..to : s[k] \in Lower \cup Upper \cup Digit \cup {"-"}
    /\ s[from] # "-"
    /\ s[to] # "-"

\* the validator of the claim
ClaimedValid(s) ==
    /\ Len(s) <= 253
    /\ Cardinality(Cuts(s)) >= 3
    /\ \A c \in Cuts(s) \ {Len(s) + 1} :
          ClaimedLabel(s, c + 1, NextCut(s, c) - 1)
    /\ LET last == CHOOSE c \in Cuts(s) : NextCut(s, c) = Len(s) + 1 /\ c <= Len(s)
       IN /\ Len(s) - last >= 2
          /\ \A k \in (last + 1)..Len(s) : s[k] \in Lower \cup Upper

\* C4 as claimed: is_valid_domain(s) is true exactly when s is at most 253
\* characters long and is two or more dot-separated labels, each 1 to 63
\* letters, digits and hyphens with no hyphen first or last, the last one
\* at least 2 letters.
C4_ValidatorContract ==
    Done("is_valid_domain") => (ret.value <=> ClaimedValid(arg.domain))

-----------------------------------------------------------------------------
(* check_multiple_domains: one loop iteration per step.                    *)

\* longest list passed to check_multiple_domains
MaxBatch == 3

BatchDomains ==
    {<<"a", ".", "c", "o">>,             \* a.co
     <<>>,                               \* the empty string
     <<"a", ".", "b", ".", "c", "o">>}   \* a.b.co

\* the parameter delay, in seconds
Delays == {-1, 0, 1}

\* log entry: a call of check_domain from a loop, with what it returned
CheckCall(domain, result) ==
    [kind |-> "check", what |-> domain, raised |-> FALSE, result |-> result]

\* what check_domain(domain) can return to a caller that passes no methods
check_domain_results(key, domain) ==
    {run.result : run \in check_domain(key, domain, TRUE, <<>>)}

\* check_domain_results, computed once for the domains the batch is given
BatchChecks ==
    [key \in Keys, d \in BatchDomains |-> check_domain_results(key, d)]

\* mutant: a result without an answer is not kept
AppendResult_SkipUnknown(results, result) ==
    IF result.available = None THEN results ELSE Append(results, result)

\* results.append(result)
AppendResult(results, result) == Append(results, result)

CallCheckMultiple ==
    /\ pc = "idle"
    /\ \E ds \in SeqsUpTo(BatchDomains, MaxBatch), delay \in Delays :
          /\ pc' = "batch"
          /\ op' = "check_multiple_domains"
          /\ arg' = [domains |-> ds, delay |-> delay]
          /\ idx' = 0
          /\ acc' = <<>>
          /\ calls' = <<>>
    /\ UNCHANGED <<rapidapi_key, ret, env, suggestions>>

\* for domain in domains: one iteration
BatchIteration ==
    /\ pc = "batch"
    /\ idx < Len(arg.domains)
    /\ LET domain == arg.domains[idx + 1]
       IN \E result \in BatchChecks[rapidapi_key, domain] :
             /\ acc' = AppendResult(acc, result)
             /\ calls' = calls \o <<CheckCall(domain, result)>>
                               \o (IF arg.delay > 0 THEN <<Sleep("delay")>> ELSE <<>>)
    /\ idx' = idx + 1
    /\ UNCHANGED <<pc, rapidapi_key, op, arg, ret, env, suggestions>>

\* return results
BatchReturn ==
    /\ pc = "batch"
    /\ idx = Len(arg.domains)
    /\ pc' = "done"
    /\ ret' = [results |-> acc]
    /\ UNCHANGED <<rapidapi_key, op, arg, calls, env, idx, acc, suggestions>>

NextBatch == CallCheckMultiple \/ BatchIteration \/ BatchReturn

\* the loop is sequential code: a step that can be taken is taken
SpecBatch == Init /\ [][NextBatch]_vars /\ WF_vars(NextBatch)

BatchResultPerInput ==
    Done("check_multiple_domains") =>
        /\ Len(ret.results) = Len(arg.domains)
        /\ \A k \in 1..Len(arg.domains) : ret.results[k].domain = arg.domains[k]

\* C3: batch invariant.  check_multiple_domains terminates, and it returns
\* exactly one result per input string, the k-th result carrying the k-th
\* input string as its domain, whatever the single checks came to.
C3_BatchInvariant == []BatchResultPerInput /\ <>(pc = "done")

\* a batch of three: a rejected string, then a valid domain whose check
\* ended without an answer, then the same domain found available
C3_Witness ==
    /\ Done("check_multiple_domains")
    /\ Len(arg.domains) = 3
    /\ ~is_valid_domain(arg.domains[1])
    /\ ret.results[1].error = "Invalid domain format"
    /\ is_valid_domain(arg.domains[2])
    /\ ret.results[2].available = None
    /\ ret.results[2].domain = arg.domains[2]
    /\ arg.domains[3] = arg.domains[2]
    /\ ret.results[3].available = "True"

-----------------------------------------------------------------------------
(* generate_domain_suggestions and search_available_domains, one loop      *)
(* iteration per step.                                                     *)

\* the default value of the parameter tlds
DefaultTlds ==
    << <<"c", "o", "m">>, <<"n", "e", "t">>, <<"o", "r", "g">>, <<"i", "o">>,
       <<"c", "o">>, <<"a", "p", "p">>, <<"d", "e", "v">>, <<"t", "e", "c", "h">> >>

\* the list variations
Variations(base_name) ==
    << <<"g", "e", "t">> \o base_name,
       base_name \o <<"a", "p", "p">>,
       base_name \o <<"h", "q">>,
       base_name \o <<"p", "r", "o">>,
       <<"m", "y">> \o base_name,
       base_name \o <<"o", "n", "l", "i", "n", "e">> >>

\* seq[:n]
Prefix(seq, n) == SubSeq(seq, 1, IF n < Len(seq) THEN n ELSE Len(seq))

\* tlds_is_none: the caller passed no list of TLDs
generate_domain_suggestions(base_name, tlds_is_none, tlds) ==
    LET t == IF tlds_is_none THEN DefaultTlds ELSE tlds
        basic == [k \in 1..Len(t) |-> base_name \o <<".">> \o t[k]]
        v == Prefix(Variations(base_name), 3)
        t4 == Prefix(t, 4)
        varied == [k \in 1..(Len(v) * Len(t4)) |->
                     v[((k - 1) \div Len(t4)) + 1] \o <<".">>
                        \o t4[((k - 1) % Len(t4)) + 1]]
    IN basic \o varied

\* largest max_results passed to search_available_domains
MaxResults == 2

SearchBases ==
    {<<"x">>,          \* x: every suggestion is a valid domain
     <<"a", "-">>}     \* a-: a-.com, geta-.com are rejected, a-app.com is valid

\* check_domain_results, computed once for the suggestions of the search
SearchChecks ==
    [key \in Keys,
     d \in UNION {{generate_domain_suggestions(b, TRUE, <<>>)[k] : k \in 1..20} :
                    b \in SearchBases}
     |-> check_domain_results(key, d)]

\* mutant: off by one, stops one result late
ReachedMax_Late(available_domains, max_results) ==
    Len(available_domains) > max_results

\* len(available_domains) >= max_results
ReachedMax(available_domains, max_results) ==
    Len(available_domains) >= max_results

CallSearch ==
    /\ pc = "idle"
    /\ \E b \in SearchBases, max \in 0..MaxResults :
          /\ pc' = "search"
          /\ op' = "search_available_domains"
          /\ arg' = [base_name |-> b, max_results |-> max]
          /\ suggestions' = generate_domain_suggestions(b, TRUE, <<>>)
          /\ idx' = 0
          /\ acc' = <<>>
          /\ calls' = <<>>
    /\ UNCHANGED <<rapidapi_key, ret, env>>

\* for domain in suggestions: one iteration that does not break; the log
\* keeps the last check only, with the availability it reported
SearchIteration ==
    /\ pc = "search"
    /\ idx < Len(suggestions)
    /\ ~ReachedMax(acc, arg.max_results)
    /\ LET domain == suggestions[idx + 1]
       IN \E result \in SearchChecks[rapidapi_key, domain] :
             /\ acc' = IF result.available = "True" THEN Append(acc, result) ELSE acc
             /\ calls' = <<CheckCall(domain, [available |-> result.available]),
                           Sleep("0.8")>>
    /\ idx' = idx + 1
    /\ UNCHANGED <<pc, rapidapi_key, op, arg, ret, env, suggestions>>

\* the loop ends, by break or by exhaustion: return available_domains
SearchReturn ==
    /\ pc = "search"
    /\ idx = Len(suggestions) \/ ReachedMax(acc, arg.max_results)
    /\ pc' = "done"
    /\ ret' = [results |-> acc]
    /\ UNCHANGED <<rapidapi_key, op, arg, calls, env, idx, acc, suggestions>>

NextSearch == CallSearch \/ SearchIteration \/ SearchReturn

SpecSearch == Init /\ [][NextSearch]_vars

InSearch == op = "search_available_domains"

\* the position of a domain in the list of suggestions
PositionOf(d) == CHOOSE k \in 1..Len(suggestions) : suggestions[k] = d

\* what has been collected: available results only, at most max_results,
\* for suggestions already checked, in generation order; what is returned
\* is what was collected, and fewer than max_results are returned only
\* when every suggestion was checked
SearchCollected ==
    InSearch =>
        /\ Len(acc) <= arg.max_results
        /\ \A k \in 1..Len(acc) :
              /\ acc[k].available = "True"
              /\ \E p \in 1..idx : suggestions[p] = acc[k].domain
        /\ \A j, k \in 1..Len(acc) :
              j < k => PositionOf(acc[j].domain) < PositionOf(acc[k].domain)
        /\ pc = "done" =>
              /\ ret.results = acc
              /\ Len(acc) < arg.max_results => idx = Len(suggestions)

\* a check is issued only while fewer than max_results are collected; it is
\* the check of the next suggestion in generation order, and its result
\* is collected exactly when it is available
SearchStep ==
    (InSearch /\ idx' # idx) =>
        /\ Len(acc) < arg.max_results
        /\ idx' = idx + 1
        /\ calls'[1].kind = "check"
        /\ calls'[1].what = suggestions[idx + 1]
        /\ calls'[1].result.available # "True" => acc' = acc
        /\ calls'[1].result.available = "True" =>
              /\ Len(acc') = Len(acc) + 1
              /\ SubSeq(acc', 1, Len(acc)) = acc
              /\ acc'[Len(acc')].domain = suggestions[idx + 1]
              /\ acc'[Len(acc')].available = "True"

\* C9: search short-circuit.  search_available_domains checks the
\* suggestions in generation order, collects exactly the results that are
\* available, in that order, returns at most max_results of them (fewer
\* only when all suggestions were checked), and issues no check once
\* max_results results are collected.
C9_SearchShortCircuit == []SearchCollected /\ [][SearchStep]_vars

\* two results were asked for and found, an earlier suggestion was not
\* available, and suggestions remain unchecked
C9_Witness ==
    /\ Done("search_available_domains")
    /\ arg.max_results = 2
    /\ Len(ret.results) = 2
    /\ ret.results[1].domain # suggestions[1]
    /\ idx < Len(suggestions)

=============================================================================
